---- MODULE Spec2Model ----
(***************************************************************************)
(* A model of openquake/hazardlib/contexts.py: the distance filter, the    *)
(* point-source collapse, the rupture occurrence model and the             *)
(* probability-map assembly of ContextMaker.                               *)
(*                                                                         *)
(* Probabilities are exact rationals <<n, d>> in lowest terms (d > 0).     *)
(* An optional value is <<>> (None, NaN) or <<v>>.                         *)
(***************************************************************************)
EXTENDS Integers, Sequences, FiniteSets, TLC

VARIABLES
    f_sites,      \* filter: the sids of the site collection, in order
    f_dist,       \* filter: get_distances(rupture, sites, filter_distance)
    f_mdist,      \* filter: the mdist argument, <<>> for None
    f_maxdist,    \* filter: maximum_distance(trt, mag)
    f_out,        \* filter: what the call produced ("idle" before it)
    f_again       \* filter: what a second call on the returned sites produced

filterVars == <<f_sites, f_dist, f_mdist, f_maxdist, f_out, f_again>>

VARIABLES
    p_rup,        \* occurrence model: the rupture (occurrence_rate, probs_occur)
    p_poes,       \* occurrence model: the poes array
    p_out         \* occurrence model: the returned array (<<>> before the call)

pneVars == <<p_rup, p_poes, p_out>>

VARIABLES
    g_cm,         \* generator: the ContextMaker's options
    g_src,        \* generator: the source
    g_sites,      \* generator: the sites passed in
    g_i,          \* generator: gen_mag_ruptures() entries consumed so far
    g_out         \* generator: the triples yielded so far, in order

genVars == <<g_cm, g_src, g_sites, g_i, g_out>>

VARIABLES
    b_cm,           \* get_pmap_by_grp: the ContextMaker's options (self)
    b_rupture,      \* what the free name rupture of _make_pnes refers to
    b_src_mutex,    \* get_pmap_by_grp: argument
    b_rup_mutex,    \* get_pmap_by_grp: argument
    b_taken,        \* the (source, sites) pairs next(it) has returned so far
    b_poemap,       \* the result of the last get_pmap call
    b_pmap,         \* the AccumDict of ProbabilityMaps by group
    b_rup_data,     \* the rows collected from the poemap.data
    b_gids,         \* the group id of every collected row
    b_calc_times,   \* src.id -> <<nrups, nsites>> (the seconds are left out)
    b_dists,        \* the maxdist of the poemaps that have one
    b_pc,           \* "loop", "returned" or "raised"
    b_err           \* the error raised to the caller

mainVars == <<b_cm, b_rupture, b_src_mutex, b_rup_mutex, b_taken, b_poemap, b_pmap,
              b_rup_data, b_gids, b_calc_times, b_dists, b_pc, b_err>>

VARIABLES
    d_rupture,    \* get_distances: the rupture (what its methods return per point)
    d_mesh,       \* get_distances: the mesh, as the points it holds
    d_param,      \* get_distances: the kind of distance asked for
    d_out         \* get_distances: what the call produced (<<>> before it)

distVars == <<d_rupture, d_mesh, d_param, d_out>>

VARIABLES
    h_heap,       \* objects: the attributes of every object, by identity
    h_before,     \* objects: the heap when _gen_rups_sites was entered
    h_src,        \* objects: the identity of the source
    h_rups,       \* objects: the identity of the list rups
    h_loc,        \* objects: the identity the local name loc refers to
    h_rup,        \* objects: the identity _collapse returned, if any
    h_n,          \* objects: the magnitudes gone through
    h_pc          \* objects: "depth" (line 367), "yield" (line 385) or "done"

heapVars == <<h_heap, h_before, h_src, h_rups, h_loc, h_rup, h_n, h_pc>>

VARIABLES
    k_kind,       \* keys: which key function is called
    k_job,        \* keys: job_id
    k_site,       \* keys: the site (longitude, latitude, hash())
    k_num,        \* keys: realization_num of hazard_curve_key
    k_poe,        \* keys: poe, in hundredths
    k_quantile,   \* keys: quantile, in hundredths
    k_key,        \* keys: the key generated (<<>> before)
    k_out         \* keys: what poe_value_from_hazard_map_key gave (<<>> before)

keyVars == <<k_kind, k_job, k_site, k_num, k_poe, k_quantile, k_key, k_out>>

vars == <<filterVars, pneVars, genVars, mainVars, distVars, heapVars, keyVars>>

\* the variables of a component that a specification does not exercise
IdleFilter ==
    /\ f_sites = <<>> /\ f_dist = <<>> /\ f_mdist = <<>>
    /\ f_maxdist = 0 /\ f_out = <<>> /\ f_again = <<>>

IdleDist ==
    d_rupture = <<>> /\ d_mesh = <<>> /\ d_param = "" /\ d_out = <<>>

IdleKeys ==
    /\ k_kind = "" /\ k_job = 0 /\ k_site = <<>> /\ k_num = 0 /\ k_poe = 0
    /\ k_quantile = 0 /\ k_key = <<>> /\ k_out = <<>>

IdleHeap ==
    /\ h_heap = <<>> /\ h_before = <<>> /\ h_src = 0 /\ h_rups = 0
    /\ h_loc = 0 /\ h_rup = <<>> /\ h_n = 0 /\ h_pc = "idle"

IdlePne == p_rup = <<>> /\ p_poes = <<>> /\ p_out = <<>>

IdleGen ==
    /\ g_cm = <<>> /\ g_src = <<>> /\ g_sites = <<>>
    /\ g_i = 0 /\ g_out = <<>>

IdleMain ==
    /\ b_cm = <<>> /\ b_rupture = <<>> /\ b_src_mutex = FALSE /\ b_rup_mutex = FALSE
    /\ b_taken = <<>> /\ b_poemap = <<>> /\ b_pmap = <<>> /\ b_rup_data = <<>>
    /\ b_gids = <<>> /\ b_calc_times = <<>> /\ b_dists = <<>> /\ b_pc = "idle"
    /\ b_err = <<>>

(***************************************************************************)
(* Exact rational arithmetic                                               *)
(***************************************************************************)
Abs(n) == IF n < 0 THEN 0 - n ELSE n

RECURSIVE GCD(_, _)
GCD(a, b) == IF b = 0 THEN a ELSE GCD(b, a % b)

Rat(n, d) ==
    LET g == GCD(Abs(n), d)
    IN  IF g = 0 THEN <<0, 1>> ELSE <<n \div g, d \div g>>

Zero == Rat(0, 1)
One == Rat(1, 1)
Int2Rat(n) == Rat(n, 1)

RAdd(a, b) == Rat(a[1] * b[2] + b[1] * a[2], a[2] * b[2])
RSub(a, b) == Rat(a[1] * b[2] - b[1] * a[2], a[2] * b[2])
RMul(a, b) == Rat(a[1] * b[1], a[2] * b[2])
RLeq(a, b) == a[1] * b[2] <= b[1] * a[2]
RLt(a, b) == a[1] * b[2] < b[1] * a[2]

RECURSIVE RPow(_, _)
RPow(a, k) == IF k = 0 THEN One ELSE RMul(a, RPow(a, k - 1))

InUnit(a) == RLeq(Zero, a) /\ RLeq(a, One)

(***************************************************************************)
(* Optional values                                                         *)
(***************************************************************************)
None == <<>>
Some(v) == <<v>>
IsNone(o) == o = <<>>
Val(o) == o[1]

\* Python truth of an optional number: None and 0 are false
Truthy(o) == ~IsNone(o) /\ Val(o) # 0

(***************************************************************************)
(* Sequences                                                               *)
(***************************************************************************)
\* numpy boolean-mask indexing: the elements whose mask is set, in order
RECURSIVE MaskSelect(_, _)
MaskSelect(s, mask) ==
    IF s = <<>> THEN <<>>
    ELSE (IF Head(mask) THEN <<Head(s)>> ELSE <<>>)
         \o MaskSelect(Tail(s), Tail(mask))

Range(s) == {s[i] : i \in DOMAIN s}

(***************************************************************************)
(* Bounds                                                                  *)
(***************************************************************************)
NSites == 3        \* sids 0 .. NSites-1 in the filter and generator models
MaxDist == 2       \* distances and maximum distances range over 0 .. MaxDist

Sids == 0 .. (NSites - 1)
Dists == 0 .. MaxDist

\* a site collection: sids in increasing order
RECURSIVE SortedSeq(_)
SortedSeq(S) ==
    IF S = {} THEN <<>>
    ELSE LET m == CHOOSE x \in S : \A y \in S : x <= y
         IN  <<m>> \o SortedSeq(S \ {m})

SiteCollections == {SortedSeq(S) : S \in (SUBSET Sids) \ {{}}}

(***************************************************************************)
(* get_distances, restricted to the filter distance: the geometry gives    *)
(* every site its distance from the rupture; the result is aligned with    *)
(* the mesh.                                                               *)
(***************************************************************************)
\* the distances of the first points of the geometry, whatever the mesh
get_distances_by_position(geom, mesh) ==
    [i \in DOMAIN mesh |-> geom[i - 1]]

get_distances(geom, mesh) == [i \in DOMAIN mesh |-> geom[mesh[i]]]

\* a narrower collection whose sites are numbered anew from 0
sites_filter_renumbered(sites, mask) ==
    [i \in DOMAIN MaskSelect(sites, mask) |-> i - 1]

\* SiteCollection.filter(mask): the narrower collection, sids preserved
sites_filter(sites, mask) == MaskSelect(sites, mask)

(***************************************************************************)
(* ContextMaker.filter(sites, rupture, mdist)                              *)
(***************************************************************************)
\* line 221: mdist or self.maximum_distance(trt, mag)
mdist_or(mdist, maxdist) == IF Truthy(mdist) THEN Val(mdist) ELSE maxdist

\* the same filter returning every site as soon as one is near enough
filter_unmasked(sites, geom, mdist, maxdist) ==
    IF \E i \in DOMAIN sites :
          get_distances(geom, sites)[i] <= mdist_or(mdist, maxdist)
    THEN [kind |-> "ok", sids |-> sites,
          filter_distance |-> get_distances(geom, sites)]
    ELSE [kind |-> "FarAwayRupture", sids |-> <<>>,
          filter_distance |-> <<>>]

filter(sites, geom, mdist, maxdist) ==
    LET distances == get_distances(geom, sites)
        m == mdist_or(mdist, maxdist)
        mask == [i \in DOMAIN sites |-> distances[i] <= m]
    IN  IF \E i \in DOMAIN sites : mask[i]
        THEN [kind |-> "ok",
              sids |-> sites_filter(sites, mask),
              filter_distance |-> MaskSelect(distances, mask)]
        ELSE [kind |-> "FarAwayRupture", sids |-> <<>>,
              filter_distance |-> <<>>]

FilterIdle == [kind |-> "idle", sids |-> <<>>, filter_distance |-> <<>>]

InitFilter ==
    /\ IdlePne /\ IdleGen /\ IdleMain /\ IdleDist /\ IdleHeap /\ IdleKeys
    /\ f_sites \in SiteCollections
    /\ f_dist \in [Sids -> Dists]
    /\ f_mdist \in {None} \cup {Some(d) : d \in Dists}
    /\ f_maxdist \in Dists
    /\ f_out = FilterIdle
    /\ f_again = FilterIdle

CallFilter ==
    /\ f_out.kind = "idle"
    /\ f_out' = filter(f_sites, f_dist, f_mdist, f_maxdist)
    /\ UNCHANGED <<f_sites, f_dist, f_mdist, f_maxdist, f_again>>
    /\ UNCHANGED <<pneVars, genVars, mainVars, distVars, heapVars, keyVars>>

\* filter called again on the sites it returned, with the same rupture
\* and the same mdist
CallFilterAgain ==
    /\ f_out.kind = "ok"
    /\ f_again.kind = "idle"
    /\ f_again' = filter(f_out.sids, f_dist, f_mdist, f_maxdist)
    /\ UNCHANGED <<f_sites, f_dist, f_mdist, f_maxdist, f_out>>
    /\ UNCHANGED <<pneVars, genVars, mainVars, distVars, heapVars, keyVars>>

NextFilter == CallFilter \/ CallFilterAgain

SpecFilter == InitFilter /\ [][NextFilter]_vars

(***************************************************************************)
(* C3                                                                      *)
(***************************************************************************)
\* the maximum distance the caller asked for: the supplied mdist, or
\* maximum_distance(trt, mag) when none is supplied
AskedMdist == IF IsNone(f_mdist) THEN f_maxdist ELSE Val(f_mdist)

NearIdx(m) == {i \in DOMAIN f_sites : f_dist[f_sites[i]] <= m}

\* the sub-sequence of s at the indices I, in order
RECURSIVE SubSeqAt(_, _, _)
SubSeqAt(s, I, i) ==
    IF i > Len(s) THEN <<>>
    ELSE (IF i \in I THEN <<s[i]>> ELSE <<>>) \o SubSeqAt(s, I, i + 1)

FilterExactFor(m) ==
    /\ (f_out.kind = "FarAwayRupture") <=> (NearIdx(m) = {})
    /\ NearIdx(m) # {} =>
          /\ f_out.kind = "ok"
          /\ f_out.sids = SubSeqAt(f_sites, NearIdx(m), 1)
          /\ Len(f_out.filter_distance) = Len(f_out.sids)
          /\ \A k \in DOMAIN f_out.sids :
                f_out.filter_distance[k] = f_dist[f_out.sids[k]]

\* C3: filter fails with FarAwayRupture exactly when no site has
\* d <= mdist, and otherwise returns exactly the sites with d <= mdist,
\* in order, with the distance array restricted to them and aligned.
C3_FilterExact == f_out.kind # "idle" => FilterExactFor(AskedMdist)

(***************************************************************************)
(* RuptureContext.get_probability_no_exceedance                            *)
(***************************************************************************)
MaxK == 3          \* probs_occur has at most MaxK entries

NaN == None
isnan(rate) == IsNone(rate)

\* the temporal occurrence model of a parametric rupture, which the
\* rupture delegates to (line 602). The functional form is the model's
\* own; this one has the defining properties of the Poisson model for a
\* whole number of occurrences: pne(r1 + r2, p) = pne(r1, p) * pne(r2, p)
\* and pne(r, 0) = 1.
tom_get_probability_no_exceedance(rate, poe) ==
    RPow(RSub(One, poe), rate)

\* lines 593-595: the terms v * (1 - poes) ** i for i, v in enumerate(p_kT),
\* summed
RECURSIVE SumTerms(_, _, _)
SumTerms(p_kT, poe, i) ==
    IF i > Len(p_kT) THEN Zero
    ELSE RAdd(RMul(p_kT[i], RPow(RSub(One, poe), i - 1)),
              SumTerms(p_kT, poe, i + 1))

\* the same with enumerate starting at 1
nonparametric_pne_shifted(p_kT, poe) ==
    LET RECURSIVE S(_)
        S(i) == IF i > Len(p_kT) THEN Zero
                ELSE RAdd(RMul(p_kT[i], RPow(RSub(One, poe), i)), S(i + 1))
        s0 == S(1)
        s1 == IF RLt(One, s0) THEN One ELSE s0
    IN  IF poe = Zero THEN One ELSE s1

\* lines 592-599, one element of the array
nonparametric_pne(p_kT, poe) ==
    LET s0 == SumTerms(p_kT, poe, 1)
        s1 == IF RLt(One, s0) THEN One ELSE s0      \* line 597
    IN  IF poe = Zero THEN One ELSE s1              \* line 598

\* lines 577-602, element by element over the poes array
get_probability_no_exceedance(rup, poes) ==
    IF isnan(rup.occurrence_rate)
    THEN [i \in DOMAIN poes |-> nonparametric_pne(rup.probs_occur, poes[i])]
    ELSE [i \in DOMAIN poes |->
            tom_get_probability_no_exceedance(Val(rup.occurrence_rate),
                                              poes[i])]

ProbVals == {Rat(k, 10) : k \in {0, 2, 3, 5, 10}}
PoeVals == {Rat(k, 10) : k \in {0, 1, 5, 10}}

SeqsUpTo(S, n) == UNION {[1 .. k -> S] : k \in 1 .. n}

InitPne ==
    /\ IdleFilter /\ IdleGen /\ IdleMain /\ IdleDist /\ IdleHeap /\ IdleKeys
    /\ p_rup \in [occurrence_rate : {NaN}, probs_occur : SeqsUpTo(ProbVals, MaxK)]
    /\ p_poes \in [1 .. 1 -> PoeVals]
    /\ p_out = <<>>

CallPne ==
    /\ p_out = <<>>
    /\ p_out' = get_probability_no_exceedance(p_rup, p_poes)
    /\ UNCHANGED <<p_rup, p_poes>>
    /\ UNCHANGED <<filterVars, genVars, mainVars, distVars, heapVars, keyVars>>

NextPne == CallPne

SpecPne == InitPne /\ [][NextPne]_vars

(***************************************************************************)
(* C10                                                                     *)
(***************************************************************************)
\* sum over k of p[k] * q^k, by Horner's rule from the last term
RECURSIVE Horner(_, _)
Horner(p, q) ==
    IF p = <<>> THEN Zero
    ELSE RAdd(Head(p), RMul(q, Horner(Tail(p), q)))

RMin(a, b) == IF RLeq(a, b) THEN a ELSE b

\* probs_occur = [1, 0, ..., 0]
CertainlyNone(p) == p[1] = One /\ \A k \in 2 .. Len(p) : p[k] = Zero

\* C10: for a nonparametric rupture the result is the sum over k of
\* probs_occur[k] * (1 - poes)^k, clamped to 1 from above and forced to 1
\* where poes = 0; probs_occur = [1, 0, ...] gives 1, probs_occur = [0, 1]
\* gives 1 - poes, and the result lies in [0, 1].
C10_NonparametricPne ==
    p_out # <<>> =>
        \A i \in DOMAIN p_poes :
            LET p == p_rup.probs_occur
                q == RSub(One, p_poes[i])
            IN  /\ p_out[i] = (IF p_poes[i] = Zero THEN One
                               ELSE RMin(One, Horner(p, q)))
                /\ CertainlyNone(p) => p_out[i] = One
                /\ p = <<Zero, One>> => p_out[i] = q
                /\ InUnit(p_out[i])

\* the worked example of the specification: [0.5, 0.3, 0.2] at poes 0.1
C10_Witness ==
    /\ p_rup # <<>>
    /\ p_rup.probs_occur = <<Rat(5, 10), Rat(3, 10), Rat(2, 10)>>
    /\ p_poes = <<Rat(1, 10)>>
    /\ p_out = <<Rat(932, 1000)>>

(***************************************************************************)
(* Ruptures, sources and the options of a ContextMaker                     *)
(***************************************************************************)
Mags == {5, 6}

DefaultMaxSitesDisagg == 10
DefaultCollapseFactor == 3

Min(a, b) == IF a <= b THEN a ELSE b

\* a list of ruptures, or one rupture object
List(items) == [list |-> TRUE, items |-> items]
Single(rup) == [list |-> FALSE, items |-> <<rup>>]

Triple(rups, sites, mdist) == [rups |-> rups, sites |-> sites, mdist |-> mdist]

(***************************************************************************)
(* _collapse(rups)                                                         *)
(***************************************************************************)
\* lines 145-147: a copy of rups[0] with occurrence_rate *= len(rups)
\* (NaN stays NaN)
_collapse(rups) ==
    [rups[1] EXCEPT !.occurrence_rate =
        IF isnan(@) THEN NaN ELSE Some(Val(@) * Len(rups))]

(***************************************************************************)
(* SiteCollection.split(location, distance): the sites closer than         *)
(* distance and the others; a side without sites is None.                  *)
(***************************************************************************)
sites_split(sites, loc, cdist) ==
    LET close == [i \in DOMAIN sites |-> loc[sites[i]] < cdist]
        far == [i \in DOMAIN sites |-> ~close[i]]
        c == MaskSelect(sites, close)
        f == MaskSelect(sites, far)
    IN  [close |-> IF c = <<>> THEN None ELSE Some(c),
         far |-> IF f = <<>> THEN None ELSE Some(f)]

(***************************************************************************)
(* ContextMaker._gen_rups_sites(src, sites): what one entry (mag, rups)    *)
(* of src.gen_mag_ruptures() makes it yield                                *)
(***************************************************************************)
\* lines 372-375
gen_mdist(cm, src, mag) ==
    LET mdist == cm.maximum_distance[mag]
        radius == src.radius[mag]
    IN  IF ~IsNone(cm.max_radius)
        THEN Min(Val(cm.max_radius) * radius, mdist)
        ELSE mdist

\* the collapse distance without the cap at mdist
gen_cdist_uncapped(cm, src, mag) ==
    IF IsNone(cm.pointsource_distance)
    THEN cm.collapse_factor * src.radius[mag]
    ELSE Val(cm.pointsource_distance)

\* lines 381-384
gen_cdist(cm, src, mag) ==
    LET mdist == gen_mdist(cm, src, mag)
        radius == src.radius[mag]
    IN  IF IsNone(cm.pointsource_distance)
        THEN Min(cm.collapse_factor * radius, mdist)
        ELSE Min(Val(cm.pointsource_distance), mdist)

\* line 360
simple(src) == ~IsNone(src.location) /\ src.nphc = 1

\* the same loop body with the far and the close triple swapped
gen_mag_swapped(cm, src, sites, e) ==
    IF ~IsNone(src.location) /\ Len(sites) > cm.max_sites_disagg
    THEN LET mdist == Some(gen_mdist(cm, src, e.mag))
             sp == sites_split(sites, Val(src.location),
                               gen_cdist(cm, src, e.mag))
         IN  IF simple(src) THEN <<Triple(List(e.rups), sites, mdist)>>
             ELSE IF IsNone(sp.close)
             THEN <<Triple(Single(_collapse(e.rups)), Val(sp.far), mdist)>>
             ELSE IF IsNone(sp.far)
             THEN <<Triple(List(e.rups), Val(sp.close), mdist)>>
             ELSE <<Triple(List(e.rups), Val(sp.close), mdist),
                    Triple(Single(_collapse(e.rups)), Val(sp.far), mdist)>>
    ELSE <<Triple(List(e.rups), sites, None)>>

\* the same loop body with the site test len(sites) >= max_sites_disagg
gen_mag_geq(cm, src, sites, e) ==
    IF ~IsNone(src.location) /\ Len(sites) >= cm.max_sites_disagg
    THEN LET mdist == Some(gen_mdist(cm, src, e.mag))
             sp == sites_split(sites, Val(src.location),
                               gen_cdist(cm, src, e.mag))
         IN  IF simple(src) THEN <<Triple(List(e.rups), sites, mdist)>>
             ELSE IF IsNone(sp.close)
             THEN <<Triple(Single(_collapse(e.rups)), Val(sp.far), mdist)>>
             ELSE IF IsNone(sp.far)
             THEN <<Triple(List(e.rups), Val(sp.close), mdist)>>
             ELSE <<Triple(Single(_collapse(e.rups)), Val(sp.far), mdist),
                    Triple(List(e.rups), Val(sp.close), mdist)>>
    ELSE <<Triple(List(e.rups), sites, None)>>

\* lines 362-394, the body of the loop over gen_mag_ruptures()
gen_mag(cm, src, sites, e) ==
    IF ~IsNone(src.location) /\ Len(sites) > cm.max_sites_disagg
    THEN LET mdist == Some(gen_mdist(cm, src, e.mag))
             sp == sites_split(sites, Val(src.location),
                               gen_cdist(cm, src, e.mag))
         IN  IF simple(src) THEN <<Triple(List(e.rups), sites, mdist)>>
             ELSE IF IsNone(sp.close)
             THEN <<Triple(Single(_collapse(e.rups)), Val(sp.far), mdist)>>
             ELSE IF IsNone(sp.far)
             THEN <<Triple(List(e.rups), Val(sp.close), mdist)>>
             ELSE <<Triple(Single(_collapse(e.rups)), Val(sp.far), mdist),
                    Triple(List(e.rups), Val(sp.close), mdist)>>
    ELSE <<Triple(List(e.rups), sites, None)>>

\* lines 357-394: every triple the generator yields, in order
RECURSIVE gen_from(_, _, _, _)
gen_from(cm, src, sites, k) ==
    IF k > Len(src.mags) THEN <<>>
    ELSE gen_mag(cm, src, sites, src.mags[k])
         \o gen_from(cm, src, sites, k + 1)

_gen_rups_sites(cm, src, sites) == gen_from(cm, src, sites, 1)

(***************************************************************************)
(* The generator, one gen_mag_ruptures() entry at a time                   *)
(***************************************************************************)
\* the distance of every site from the source's location
LocGeom == [s \in Sids |-> Min(s, MaxDist)]

GenRupture(mag, k, rate) ==
    [rup_id |-> 10 * mag + k, mag |-> mag, occurrence_rate |-> Some(rate)]

GenEntry(mag, rates) ==
    [mag |-> mag, rups |-> [k \in DOMAIN rates |-> GenRupture(mag, k, rates[k])]]

RateLists == {<<1>>, <<2, 2>>, <<1, 2>>}

GenMagLists ==
    {<<GenEntry(5, rs)>> : rs \in RateLists}
    \cup {<<GenEntry(5, rs), GenEntry(6, <<1, 1>>)>> : rs \in RateLists}

GenSources ==
    {[location |-> loc, nphc |-> n, radius |-> [m \in Mags |-> r], mags |-> ms] :
        loc \in {None, Some(LocGeom)}, n \in {1, 2}, r \in {0, 1},
        ms \in GenMagLists}

GenOptions ==
    {[max_sites_disagg |-> msd, collapse_factor |-> DefaultCollapseFactor,
      max_radius |-> mr, pointsource_distance |-> psd,
      maximum_distance |-> [m \in Mags |-> IF m = 5 THEN md
                                            ELSE Min(md + 1, MaxDist)]] :
        msd \in {1, DefaultMaxSitesDisagg}, mr \in {None, Some(1)},
        psd \in {None, Some(1)}, md \in Dists}

InitGen ==
    /\ IdleFilter /\ IdlePne /\ IdleMain /\ IdleDist /\ IdleHeap /\ IdleKeys
    /\ g_cm \in GenOptions
    /\ g_src \in GenSources
    /\ g_sites \in SiteCollections
    /\ g_i = 0
    /\ g_out = <<>>

GenNext ==
    /\ g_i < Len(g_src.mags)
    /\ g_out' = g_out \o gen_mag(g_cm, g_src, g_sites, g_src.mags[g_i + 1])
    /\ g_i' = g_i + 1
    /\ UNCHANGED <<g_cm, g_src, g_sites>>
    /\ UNCHANGED <<filterVars, pneVars, mainVars, distVars, heapVars, keyVars>>

NextGen == GenNext

SpecGen == InitGen /\ [][NextGen]_vars

GenStarted == g_src # <<>>
GenFinished == GenStarted /\ g_i = Len(g_src.mags)

\* the triples yielded for one magnitude, in order
TriplesOf(mag) == SelectSeq(g_out, LAMBDA t : t.rups.items[1].mag = mag)

RECURSIVE SumRates(_)
SumRates(rups) ==
    IF rups = <<>> THEN 0
    ELSE Val(Head(rups).occurrence_rate) + SumRates(Tail(rups))

(***************************************************************************)
(* C7                                                                      *)
(***************************************************************************)
\* C7: the occurrence rate of the rupture returned by _collapse equals the
\* sum of the occurrence rates of the ruptures of the list.
C7_CollapsedRateIsSum ==
    GenStarted =>
        \A k \in 1 .. g_i :
            \A j \in DOMAIN TriplesOf(g_src.mags[k].mag) :
                LET t == TriplesOf(g_src.mags[k].mag)[j]
                IN  ~t.rups.list =>
                        Val(t.rups.items[1].occurrence_rate)
                            = SumRates(g_src.mags[k].rups)

(***************************************************************************)
(* C8                                                                      *)
(***************************************************************************)
Complex == ~IsNone(g_src.location) /\ g_src.nphc > 1
                /\ Len(g_sites) > g_cm.max_sites_disagg

NoDuplicates(s) == \A i, j \in DOMAIN s : s[i] = s[j] => i = j

C8_ForEntry(e) ==
    LET ts == TriplesOf(e.mag)
        cdist == gen_cdist(g_cm, g_src, e.mag)
        loc == Val(g_src.location)
    IN  /\ \A i \in DOMAIN g_sites :
              Cardinality({j \in DOMAIN ts : g_sites[i] \in Range(ts[j].sites)}) = 1
        /\ \A j \in DOMAIN ts :
              /\ ts[j].sites # <<>>
              /\ NoDuplicates(ts[j].sites)
              /\ Range(ts[j].sites) \subseteq Range(g_sites)
              /\ \A sid \in Range(ts[j].sites) :
                    /\ loc[sid] > cdist =>
                          /\ ~ts[j].rups.list
                          /\ ts[j].rups.items[1].rup_id = e.rups[1].rup_id
                    /\ loc[sid] < cdist => ts[j].rups = List(e.rups)
        /\ Len(ts) <= 2
        /\ Len(ts) = 2 => ~ts[1].rups.list /\ ts[2].rups.list

\* C8: for a point source with several nodal-plane/hypocenter combinations
\* and more than max_sites_disagg sites, every magnitude puts every input
\* site in exactly one yielded triple: the sites farther than cdist with
\* the single collapsed rupture, the sites within cdist with the full list
\* of the magnitude; no triple has an empty site set, and of two triples
\* the collapsed one comes first.
C8_SplitPartitionsSites ==
    GenStarted /\ Complex => \A k \in 1 .. g_i : C8_ForEntry(g_src.mags[k])

\* a magnitude that yielded a collapsed triple and then a full one
C8_Witness ==
    /\ GenStarted /\ Complex /\ g_i >= 1
    /\ Len(TriplesOf(5)) = 2
    /\ Len(TriplesOf(5)[1].sites) + Len(TriplesOf(5)[2].sites) = Len(g_sites)

(***************************************************************************)
(* C9                                                                      *)
(***************************************************************************)
NoCollapseCase == IsNone(g_src.location)
                      \/ Len(g_sites) <= g_cm.max_sites_disagg

RECURSIVE AllRuptures(_)
AllRuptures(mags) ==
    IF mags = <<>> THEN <<>> ELSE Head(mags).rups \o AllRuptures(Tail(mags))

RECURSIVE ListedRuptures(_)
ListedRuptures(out) ==
    IF out = <<>> THEN <<>>
    ELSE Head(out).rups.items \o ListedRuptures(Tail(out))

\* C9 as stated: without a location, or with at most max_sites_disagg
\* sites, the generator yields one triple (all ruptures of the source, the
\* unchanged sites, None).
C9_OneTripleForTheSource ==
    GenFinished /\ NoCollapseCase =>
        g_out = <<Triple(List(AllRuptures(g_src.mags)), g_sites, None)>>

\* C9 as amended: without a location, or with at most max_sites_disagg
\* sites, the generator yields one triple per magnitude, in the order of
\* gen_mag_ruptures(): (the ruptures of that magnitude, the unchanged
\* sites, None); the triples together list every rupture of the source
\* once, none collapsed.
C9_OneTriplePerMagnitude ==
    GenStarted /\ NoCollapseCase =>
        /\ Len(g_out) = g_i
        /\ \A k \in 1 .. g_i :
              g_out[k] = Triple(List(g_src.mags[k].rups), g_sites, None)
        /\ GenFinished => ListedRuptures(g_out) = AllRuptures(g_src.mags)

\* a point source with too few sites to collapse and two magnitudes, done
C9_Witness ==
    /\ GenFinished /\ ~IsNone(g_src.location)
    /\ Len(g_sites) = g_cm.max_sites_disagg
    /\ Len(g_src.mags) = 2 /\ Len(g_out) = 2

(***************************************************************************)
(* ProbabilityMap: a map from sid to an array over the columns (level,     *)
(* GSIM); every IMT has one level here. The class is imported (line 30);   *)
(* its operators are those of the specification's data model.              *)
(***************************************************************************)
Imts == {"PGA", "SA"}
Gsims == {"g1", "g2"}
Cols == Imts \X Gsims

\* the slice ll(imt) of the levels of an IMT, for every GSIM
ll(imt) == {c \in Cols : c[1] = imt}

EmptyMap == <<>>

Filled(value) == [c \in Cols |-> value]

\* ProbabilityMap.setdefault(sid, value): the entry, created as an array
\* filled with value (True is 1, False is 0) when absent
pm_setdefault(pm, sid, value) ==
    IF sid \in DOMAIN pm THEN pm
    ELSE pm @@ (sid :> Filled(IF value THEN One ELSE Zero))

\* ~pm: a <- 1 - a
pm_invert(pm) == [sid \in DOMAIN pm |-> [c \in Cols |-> RSub(One, pm[sid][c])]]

\* pm *= w
pm_imul(pm, w) == [sid \in DOMAIN pm |-> [c \in Cols |-> RMul(pm[sid][c], w)]]

\* pm |= other: a <- 1 - (1 - a)(1 - b), an absent entry counting as 0
pm_ior(pm, other) ==
    [sid \in DOMAIN pm \cup DOMAIN other |->
        IF sid \notin DOMAIN other THEN pm[sid]
        ELSE IF sid \notin DOMAIN pm THEN other[sid]
        ELSE [c \in Cols |->
                RSub(One, RMul(RSub(One, pm[sid][c]),
                               RSub(One, other[sid][c])))]]

\* pm += other: a <- a + b, an absent entry counting as 0
pm_iadd(pm, other) ==
    [sid \in DOMAIN pm \cup DOMAIN other |->
        IF sid \notin DOMAIN other THEN pm[sid]
        ELSE IF sid \notin DOMAIN pm THEN other[sid]
        ELSE [c \in Cols |-> RAdd(pm[sid][c], other[sid][c])]]

(***************************************************************************)
(* ContextMaker.make_contexts, as far as the sites and the filter          *)
(* distance go                                                             *)
(***************************************************************************)
make_contexts(cm, sites, rup, radius_dist) ==
    filter(sites, rup.geom, radius_dist, cm.maximum_distance[rup.mag])

\* the entry data.append((rup, r_sites, dctx)) of line 319
data_entry(rup, r) ==
    [rup |-> rup, r_sites |-> r.sids, dctx |-> r.filter_distance]

\* the same step without the except clause: FarAwayRupture is raised
batch_step_uncaught(rup, r, rest) ==
    IF r.kind # "ok" THEN [kind |-> "raise", etype |-> r.kind, data |-> <<>>]
    ELSE IF rest.kind = "raise" THEN rest
    ELSE [rest EXCEPT !.data = <<data_entry(rup, r)>> \o @]

\* lines 314-319, one rupture: r is what make_contexts gave for rup and
\* rest what the loop gives for the ruptures after it. FarAwayRupture is
\* caught and the rupture skipped, any other error is raised.
batch_step(rup, r, rest) ==
    IF r.kind = "FarAwayRupture" THEN rest
    ELSE IF r.kind # "ok"
    THEN [kind |-> "raise", etype |-> r.kind, data |-> <<>>]
    ELSE IF rest.kind = "raise" THEN rest
    ELSE [rest EXCEPT !.data = <<data_entry(rup, r)>> \o @]

\* lines 313-319: the (rup, r_sites, dctx) of the ruptures that are not
\* far away, in the order of rups
RECURSIVE batch_data(_, _, _, _)
batch_data(cm, items, sites, magdist) ==
    IF items = <<>> THEN [kind |-> "ok", etype |-> "", data |-> <<>>]
    ELSE batch_step(Head(items),
                    make_contexts(cm, sites, Head(items), magdist),
                    batch_data(cm, Tail(items), sites, magdist))

\* line 318: sids.extend(r_sites.sids) over the batch
RECURSIVE batch_sids(_)
batch_sids(data) ==
    IF data = <<>> THEN <<>>
    ELSE Head(data).r_sites \o batch_sids(Tail(data))

(***************************************************************************)
(* ContextMaker._make_pnes(data, mean_std)                                 *)
(***************************************************************************)
\* base.get_mean_std and base.get_poes over the batch: one row per
\* (rupture, surviving site), in the order of data, holding the poes the
\* GSIMs give that rupture at that site
RECURSIVE get_poes(_)
get_poes(data) ==
    IF data = <<>> THEN <<>>
    ELSE [i \in DOMAIN Head(data).r_sites |->
            Head(data).rup.poes[Head(data).r_sites[i]]]
         \o get_poes(Tail(data))

\* lines 349-354: a GSIM with weight[imt] == 0 has its poes set to 0
zero_weight(cm, c) ==
    /\ ~IsNone(cm.gsim_weight[c[2]])
    /\ Val(cm.gsim_weight[c[2]])[c[1]] = 0

\* no masking at all
mask_poes_none(cm, poes) == poes

mask_poes(cm, poes) ==
    [i \in DOMAIN poes |->
        [c \in Cols |-> IF zero_weight(cm, c) THEN Zero ELSE poes[i][c]]]

\* line 355: rupture.get_probability_no_exceedance(poes), where rupture
\* is neither a parameter nor a name the module binds. bound is what
\* the name refers to when the call is made: None when nothing binds it
\* (NameError), else a rupture, whose occurrence model then serves every
\* row of the batch. The rows are in the order of the sids of the batch;
\* get_pmap reads the result as (sid, pne) pairs (lines 328, 331), which
\* the model takes to be row i with sid i.
_make_pnes(cm, bound, data) ==
    IF IsNone(bound)
    THEN [kind |-> "raise", etype |-> "NameError", rows |-> <<>>]
    ELSE [kind |-> "ok", etype |-> "",
          rows |-> LET poes == mask_poes(cm, get_poes(data))
                   IN  [i \in DOMAIN poes |->
                          get_probability_no_exceedance(Val(bound), poes[i])]]

(***************************************************************************)
(* ContextMaker.get_pmap(src, s_sites, rup_indep)                          *)
(***************************************************************************)
Last(s) == s[Len(s)]

RECURSIVE SumSeq(_)
SumSeq(s) == IF s = <<>> THEN 0 ELSE Head(s) + SumSeq(Tail(s))

\* numpy.mean(dists) if dists else None
mean_or_none(dists) ==
    IF dists = <<>> THEN None ELSE Some(Rat(SumSeq(dists), Len(dists)))

\* the same insertion with += in place of *=
RECURSIVE insert_indep_added(_, _, _, _)
insert_indep_added(pm, sids, rows, i) ==
    IF i > Len(sids) THEN pm
    ELSE LET p == pm_setdefault(pm, sids[i], TRUE)
         IN  insert_indep_added(
                 [p EXCEPT ![sids[i]] = [c \in Cols |-> RAdd(@[c], rows[i][c])]],
                 sids, rows, i + 1)

\* the same insertion with = in place of *=
RECURSIVE insert_indep_assigned(_, _, _, _)
insert_indep_assigned(pm, sids, rows, i) ==
    IF i > Len(sids) THEN pm
    ELSE LET p == pm_setdefault(pm, sids[i], TRUE)
         IN  insert_indep_assigned(
                 [p EXCEPT ![sids[i]] = [c \in Cols |-> rows[i][c]]],
                 sids, rows, i + 1)

\* lines 328-329: poemap.setdefault(sid, rup_indep).array *= pne
RECURSIVE insert_indep(_, _, _, _)
insert_indep(pm, sids, rows, i) ==
    IF i > Len(sids) THEN pm
    ELSE LET p == pm_setdefault(pm, sids[i], TRUE)
         IN  insert_indep(
                 [p EXCEPT ![sids[i]] = [c \in Cols |-> RMul(@[c], rows[i][c])]],
                 sids, rows, i + 1)

\* lines 331-333: poemap.setdefault(sid, rup_indep).array +=
\* (1. - pne) * rup.weight, with the weight of one rupture for all rows
RECURSIVE insert_mutex(_, _, _, _, _)
insert_mutex(pm, sids, rows, weight, i) ==
    IF i > Len(sids) THEN pm
    ELSE LET p == pm_setdefault(pm, sids[i], FALSE)
         IN  insert_mutex(
                 [p EXCEPT ![sids[i]] =
                     [c \in Cols |->
                         RAdd(@[c], RMul(RSub(One, rows[i][c]), weight))]],
                 sids, rows, weight, i + 1)

\* RupData.add(rup, src_id, sctx, dctx), lines 118-140: one row
rupdata_row(rup, src_id, r_sites, dctx) ==
    [srcidx |-> src_id,
     rup_id |-> rup.rup_id,
     occurrence_rate |-> rup.occurrence_rate,
     weight |-> rup.weight,
     probs_occur |-> IF isnan(rup.occurrence_rate) THEN rup.probs_occur
                     ELSE <<>>,
     mag |-> rup.mag,
     sid_ |-> r_sites,
     dist_ |-> dctx]

\* lines 320-337, the batch once its data is collected. After the loop
\* over rups, rup is the last rupture of rups and r_sites, dctx are those
\* of the last rupture that was not far away.
batch_insert(src, fewsites, rup_indep, acc, rup, nrups, data, sids, pn) ==
    IF sids = <<>> THEN acc
    ELSE IF pn.kind = "raise"
    THEN [acc EXCEPT !.kind = "raise", !.etype = pn.etype]
    ELSE [acc EXCEPT
            !.pm = IF rup_indep
                   THEN insert_indep(@, sids, pn.rows, 1)
                   ELSE insert_mutex(@, sids, pn.rows, rup.weight, 1),
            !.nrups = @ + nrups,
            !.nsites = @ + Len(sids),
            !.data = IF fewsites
                     THEN Append(@, rupdata_row(rup, src.id,
                                                Last(data).r_sites,
                                                Last(data).dctx))
                     ELSE @]

\* lines 313-337, with made the outcome of the loop over rups
batch_made(cm, bound, src, fewsites, rup_indep, acc, items, made) ==
    IF made.kind = "raise"
    THEN [acc EXCEPT !.kind = "raise", !.etype = made.etype]
    ELSE batch_insert(src, fewsites, rup_indep, acc, Last(items),
                      Len(items), made.data, batch_sids(made.data),
                      _make_pnes(cm, bound, made.data))

\* lines 309-310: if mdist is not None: dists.append(mdist)
add_dist(acc, mdist) ==
    IF IsNone(mdist) THEN acc ELSE [acc EXCEPT !.dists = Append(@, Val(mdist))]

\* lines 308-337, the body of the loop over the triples
pmap_batch(cm, bound, src, fewsites, rup_indep, acc, t) ==
    batch_made(cm, bound, src, fewsites, rup_indep, add_dist(acc, t.mdist),
               t.rups.items,
               batch_data(cm, t.rups.items, t.sites, t.mdist))

RECURSIVE pmap_batches(_, _, _, _, _, _, _)
pmap_batches(cm, bound, src, fewsites, rup_indep, acc, ts) ==
    IF ts = <<>> \/ acc.kind = "raise" THEN acc
    ELSE pmap_batches(cm, bound, src, fewsites, rup_indep,
                      pmap_batch(cm, bound, src, fewsites, rup_indep,
                                 acc, Head(ts)),
                      Tail(ts))

\* lines 302-306: the empty poemap and its counters
empty_poemap ==
    [kind |-> "ok", etype |-> "", pm |-> EmptyMap, nrups |-> 0,
     nsites |-> 0, dists |-> <<>>, data |-> <<>>]

\* lines 338-342: the poemap returned, or the error that escaped
poemap_result(acc) ==
    IF acc.kind = "raise"
    THEN [kind |-> "raise", etype |-> acc.etype, pm |-> EmptyMap,
          nrups |-> 0, nsites |-> 0, maxdist |-> None, data |-> <<>>]
    ELSE [kind |-> "ok", etype |-> "", pm |-> acc.pm,
          nrups |-> acc.nrups, nsites |-> acc.nsites,
          maxdist |-> mean_or_none(acc.dists), data |-> acc.data]

\* lines 294-342. s_sites is [sids, complete]; the result is the poemap
\* with its nrups, nsites, maxdist and data, or the error raised.
get_pmap(cm, bound, src, s_sites, rup_indep) ==
    poemap_result(
        pmap_batches(cm, bound, src,
                     Len(s_sites.complete) <= cm.max_sites_disagg,
                     rup_indep, empty_poemap,
                     _gen_rups_sites(cm, src, s_sites.sids)))

(***************************************************************************)
(* _update(pmap, pm, src, src_mutex, rup_mutex)                            *)
(***************************************************************************)
\* pmap[grp_id] of an AccumDict(accum=ProbabilityMap(L, G)): an absent
\* group reads as an empty map
accum_get(pmap, grp_id) ==
    IF grp_id \in DOMAIN pmap THEN pmap[grp_id] ELSE EmptyMap

accum_set(pmap, grp_id, v) ==
    [g \in DOMAIN pmap \cup {grp_id} |-> IF g = grp_id THEN v ELSE pmap[g]]

\* lines 45-49
RECURSIVE update_groups(_, _, _, _)
update_groups(pmap, pm, grp_ids, src_mutex) ==
    IF grp_ids = <<>> THEN pmap
    ELSE LET g == Head(grp_ids)
             merged == IF src_mutex THEN pm_iadd(accum_get(pmap, g), pm)
                       ELSE pm_ior(accum_get(pmap, g), pm)
         IN  update_groups(accum_set(pmap, g, merged), pm, Tail(grp_ids),
                           src_mutex)

\* the same with pm *= src.mutex_weight inside the loop over the groups
_update_weight_per_group(pmap, pm, src, src_mutex, rup_mutex) ==
    LET pm1 == IF ~rup_mutex THEN pm_invert(pm) ELSE pm
        RECURSIVE G(_, _, _)
        G(acc, w, ids) ==
            IF ids = <<>> THEN acc
            ELSE LET w2 == IF src_mutex THEN pm_imul(w, src.mutex_weight)
                           ELSE w
                 IN  G(update_groups(acc, w2, <<Head(ids)>>, src_mutex),
                       w2, Tail(ids))
    IN  IF pm1 = EmptyMap THEN pmap ELSE G(pmap, pm1, src.src_group_ids)

\* lines 38-49
_update(pmap, pm, src, src_mutex, rup_mutex) ==
    LET pm1 == IF ~rup_mutex THEN pm_invert(pm) ELSE pm
        pm2 == IF src_mutex THEN pm_imul(pm1, src.mutex_weight) ELSE pm1
    IN  IF pm1 = EmptyMap THEN pmap
        ELSE update_groups(pmap, pm2, src.src_group_ids, src_mutex)

(***************************************************************************)
(* ContextMaker.get_pmap_by_grp(src_sites, src_mutex, rup_mutex)           *)
(***************************************************************************)
MaxSources == 2    \* the iterator src_sites yields at most MaxSources pairs

\* poes of a rupture: p at the PGA level, 2p at the SA level, at any site
ColPoe(p, c) == IF c[1] = "PGA" THEN p ELSE RMul(Int2Rat(2), p)

MkRupture(id, mag, rate, probs, weight, geom, p) ==
    [rup_id |-> id, mag |-> mag, occurrence_rate |-> rate,
     probs_occur |-> probs, weight |-> weight, geom |-> geom,
     poes |-> [sid \in DOMAIN geom |-> [c \in Cols |-> ColPoe(p, c)]]]

Once == <<Zero, One>>      \* probs_occur: the rupture occurs exactly once

NearBoth == (0 :> 0 @@ 1 :> 1)
NearFirst == (0 :> 1 @@ 1 :> 3)
Near2 == (0 :> 2 @@ 1 :> 2)
FarAway == (0 :> 3 @@ 1 :> 3)

MkSource(id, name, grp_ids, mutex_weight, location, nphc, mags) ==
    [id |-> id, source_id |-> name, src_group_ids |-> grp_ids,
     mutex_weight |-> mutex_weight, location |-> location, nphc |-> nphc,
     radius |-> [m \in Mags |-> 1], mags |-> mags]

\* two ruptures that occur once, both near both sites
SrcA ==
    MkSource(1, "A", <<0>>, Rat(1, 2), None, 1,
        <<[mag |-> 5, rups |->
            <<MkRupture(11, 5, NaN, Once, Rat(3, 10), NearBoth, Rat(1, 10)),
              MkRupture(12, 5, NaN, Once, Rat(7, 10), NearBoth, Rat(2, 10))>>]>>)

\* two magnitudes, two groups; the first rupture reaches site 0 only
SrcB ==
    MkSource(2, "B", <<0, 1>>, Rat(1, 4), None, 1,
        <<[mag |-> 5, rups |->
            <<MkRupture(21, 5, Some(1), <<>>, Rat(1, 2), NearFirst, Rat(1, 2))>>],
          [mag |-> 6, rups |->
            <<MkRupture(22, 6, Some(2), <<>>, Rat(1, 2), Near2, Rat(1, 4))>>]>>)

\* every rupture is far away
SrcF ==
    MkSource(3, "F", <<1>>, One, None, 1,
        <<[mag |-> 5, rups |->
            <<MkRupture(31, 5, Some(1), <<>>, One, FarAway, Rat(1, 2))>>]>>)

\* a rupture near the first site only, followed by a far one
SrcM ==
    MkSource(4, "M", <<1>>, Rat(1, 2), None, 1,
        <<[mag |-> 5, rups |->
            <<MkRupture(41, 5, NaN, <<Rat(5, 10), Rat(3, 10), Rat(2, 10)>>,
                        Rat(1, 2), NearFirst, Rat(1, 10)),
              MkRupture(42, 5, Some(1), <<>>, Rat(1, 4), FarAway, Rat(1, 2))>>]>>)

\* a point source with two nodal planes
SrcP ==
    MkSource(5, "P", <<0>>, Rat(1, 2), Some(NearBoth), 2,
        <<[mag |-> 5, rups |->
            <<MkRupture(51, 5, Some(1), <<>>, Rat(1, 2), NearBoth, Rat(1, 10)),
              MkRupture(52, 5, Some(2), <<>>, Rat(1, 2), NearBoth, Rat(2, 10))>>]>>)

\* two ruptures that occur once and are certain to exceed the SA levels
SrcH ==
    MkSource(6, "H", <<0>>, One, None, 1,
        <<[mag |-> 5, rups |->
            <<MkRupture(61, 5, NaN, Once, Rat(3, 10), NearBoth, Rat(1, 2)),
              MkRupture(62, 5, NaN, Once, Rat(7, 10), NearBoth, Rat(1, 2))>>]>>)

AllSites == [sids |-> <<0, 1>>, complete |-> <<0, 1>>]
SecondSite == [sids |-> <<1>>, complete |-> <<0, 1>>]

\* what the iterator src_sites can yield
SrcSites ==
    {[src |-> x, s_sites |-> AllSites] :
        x \in {SrcA, SrcB, SrcF, SrcM, SrcP, SrcH}}
    \cup {[src |-> SrcA, s_sites |-> SecondSite]}

\* the objects the name rupture can be bound to
OccurrenceModels ==
    {[occurrence_rate |-> NaN, probs_occur |-> Once],
     [occurrence_rate |-> Some(2), probs_occur |-> <<>>]}

NoWeights == [g \in Gsims |-> None]
ZeroWeightG2 ==
    [g \in Gsims |-> IF g = "g2" THEN Some([i \in Imts |-> IF i = "PGA" THEN 0 ELSE 1])
                     ELSE None]

MainOptions ==
    {[max_sites_disagg |-> msd, collapse_factor |-> DefaultCollapseFactor,
      max_radius |-> None, pointsource_distance |-> None,
      maximum_distance |-> (5 :> 1 @@ 6 :> 2), gsim_weight |-> w] :
        msd \in {1, DefaultMaxSitesDisagg}, w \in {NoWeights, ZeroWeightG2}}

Init ==
    /\ IdleFilter /\ IdlePne /\ IdleGen /\ IdleDist /\ IdleHeap /\ IdleKeys
    /\ b_cm \in MainOptions
    /\ b_rupture \in {None} \cup {Some(o) : o \in OccurrenceModels}
    /\ b_src_mutex \in BOOLEAN
    /\ b_rup_mutex \in BOOLEAN
    /\ b_taken = <<>>
    /\ b_poemap = <<>>
    /\ b_pmap = <<>>
    /\ b_rup_data = <<>>
    /\ b_gids = <<>>
    /\ b_calc_times = <<>>
    /\ b_dists = <<>>
    /\ b_pc = "loop"
    /\ b_err = <<>>

\* lines 426-431: every row of poemap.data once per group of the source
RECURSIVE extend_rows(_, _, _)
extend_rows(rows, data, grp_ids) ==
    IF grp_ids = <<>> THEN rows
    ELSE extend_rows(rows \o data, data, Tail(grp_ids))

RECURSIVE extend_gids(_, _, _)
extend_gids(g, nr, grp_ids) ==
    IF grp_ids = <<>> THEN g
    ELSE extend_gids(g \o [i \in 1 .. nr |-> Head(grp_ids)], nr, Tail(grp_ids))

\* lines 432-433, without the seconds
add_times(ct, id, nrups, nsites) ==
    [i \in DOMAIN ct \cup {id} |->
        IF i = id
        THEN (IF id \in DOMAIN ct THEN <<ct[id][1] + nrups, ct[id][2] + nsites>>
              ELSE <<nrups, nsites>>)
        ELSE ct[i]]

\* lines 424-433: the bookkeeping for the poemap pm of the source x.src
Collect(x, pm) ==
    /\ pm.kind = "ok"
    /\ b_poemap' = pm
    /\ b_pmap' = _update(b_pmap, pm.pm, x.src, b_src_mutex, b_rup_mutex)
    /\ b_dists' = IF ~IsNone(pm.maxdist) /\ Val(pm.maxdist) # Zero
                  THEN Append(b_dists, Val(pm.maxdist)) ELSE b_dists
    /\ b_rup_data' = IF pm.data # <<>>
                     THEN extend_rows(b_rup_data, pm.data, x.src.src_group_ids)
                     ELSE b_rup_data
    /\ b_gids' = IF pm.data # <<>>
                 THEN extend_gids(b_gids, Len(pm.data), x.src.src_group_ids)
                 ELSE b_gids
    /\ b_calc_times' = add_times(b_calc_times, x.src.id, pm.nrups, pm.nsites)
    /\ UNCHANGED <<b_pc, b_err>>

\* str(err) of the error of kind etype that get_pmap raises
err_message(etype) ==
    IF etype = "NameError" THEN "name 'rupture' is not defined" ELSE etype

\* line 422: '%s (source id=%s)' % (str(err), src.source_id), as the
\* pieces of the formatted string
decorated(message, source_id) == <<message, " (source id=", source_id, ")">>

\* the same with a message that leaves the source out
reraised_plain(etype, source_id) ==
    [etype |-> "Exception", msg |-> <<err_message(etype)>>]

\* lines 421-423: raise etype(msg)
reraised(etype, source_id) ==
    [etype |-> etype, msg |-> decorated(err_message(etype), source_id)]

\* lines 420-423: the error of get_pmap is raised again with the source
\* id in its message
Reraise(x, pm) ==
    /\ pm.kind = "raise"
    /\ b_poemap' = pm
    /\ b_err' = reraised(pm.etype, x.src.source_id)
    /\ b_pc' = "raised"
    /\ UNCHANGED <<b_pmap, b_rup_data, b_gids, b_calc_times, b_dists>>

\* lines 413-417: next(it) yields the pair x and get_pmap is called
Turn(x) ==
    /\ b_pc = "loop"
    /\ Len(b_taken) < MaxSources
    /\ b_taken' = Append(b_taken, x)
    /\ UNCHANGED <<b_cm, b_rupture, b_src_mutex, b_rup_mutex>>
    /\ UNCHANGED <<filterVars, pneVars, genVars, distVars, heapVars, keyVars>>

\* a turn of the loop in which get_pmap returns
SourceDone(x) ==
    /\ Turn(x)
    /\ Collect(x, get_pmap(b_cm, b_rupture, x.src, x.s_sites, ~b_rup_mutex))

\* a turn of the loop in which get_pmap raises
SourceRaises(x) ==
    /\ Turn(x)
    /\ Reraise(x, get_pmap(b_cm, b_rupture, x.src, x.s_sites, ~b_rup_mutex))

\* lines 418-419 and 435-438: the iterator is exhausted
StopIteration ==
    /\ b_pc = "loop"
    /\ b_pc' = "returned"
    /\ UNCHANGED <<b_cm, b_rupture, b_src_mutex, b_rup_mutex, b_taken, b_poemap, b_pmap,
                   b_rup_data, b_gids, b_calc_times, b_dists, b_err>>
    /\ UNCHANGED <<filterVars, pneVars, genVars, distVars, heapVars, keyVars>>

Next ==
    \/ \E x \in SrcSites : SourceDone(x)
    \/ \E x \in SrcSites : SourceRaises(x)
    \/ StopIteration

Spec == Init /\ [][Next]_vars

(***************************************************************************)
(* What the map of a source should hold, rupture by rupture                *)
(***************************************************************************)
\* the (triple, rupture) pairs get_pmap goes through, in order
RECURSIVE triple_pairs(_)
triple_pairs(ts) ==
    IF ts = <<>> THEN <<>>
    ELSE [i \in DOMAIN Head(ts).rups.items |->
            [t |-> Head(ts), rup |-> Head(ts).rups.items[i]]]
         \o triple_pairs(Tail(ts))

Pairs(x) == triple_pairs(_gen_rups_sites(b_cm, x.src, x.s_sites.sids))

\* sid survived the filtering that gave r
reaches_in(r, sid) ==
    r.kind = "ok" /\ \E i \in DOMAIN r.sids : r.sids[i] = sid

\* sid survived the filtering of the rupture of the pair p
Reaches(p, sid) ==
    reaches_in(make_contexts(b_cm, p.t.sites, p.rup, p.t.mdist), sid)

\* the non-exceedance row of rup at sid, under rup's own occurrence model
OwnPne(rup, sid) ==
    get_probability_no_exceedance(rup, mask_poes(b_cm, <<rup.poes[sid]>>)[1])

\* the product of the own rows of the ruptures of ps that reach sid
RECURSIVE ProductOfOwn(_, _, _)
ProductOfOwn(ps, sid, c) ==
    IF ps = <<>> THEN One
    ELSE RMul(IF Reaches(Head(ps), sid) THEN OwnPne(Head(ps).rup, sid)[c]
              ELSE One,
              ProductOfOwn(Tail(ps), sid, c))

\* the sum of (1 - own row) * own weight over the ruptures that reach sid
RECURSIVE SumOfOwn(_, _, _)
SumOfOwn(ps, sid, c) ==
    IF ps = <<>> THEN Zero
    ELSE RAdd(IF Reaches(Head(ps), sid)
              THEN RMul(RSub(One, OwnPne(Head(ps).rup, sid)[c]),
                        Head(ps).rup.weight)
              ELSE Zero,
              SumOfOwn(Tail(ps), sid, c))

\* C1: after get_pmap(src, sites, rup_indep=True) the map is returned
\* and, for every sid in it, the stored array is the product, over the
\* ruptures of the source for which the sid survived filtering, of each
\* rupture's own non-exceedance row for that sid, starting from 1.
C1_ProductOfOwnRows ==
    (b_taken # <<>> /\ ~b_rup_mutex) =>
        /\ b_poemap.kind = "ok"
        /\ \A sid \in DOMAIN b_poemap.pm : \A c \in Cols :
              b_poemap.pm[sid][c] = ProductOfOwn(Pairs(Last(b_taken)), sid, c)

\* C2: after get_pmap(src, sites, rup_indep=False) the map is returned
\* and, for every sid in it, the stored array is the sum, over the
\* ruptures for which the sid survived filtering, of (1 - the rupture's
\* own non-exceedance row) times the weight of that same rupture,
\* starting from 0.
C2_SumOfOwnWeightedRows ==
    (b_taken # <<>> /\ b_rup_mutex) =>
        /\ b_poemap.kind = "ok"
        /\ \A sid \in DOMAIN b_poemap.pm : \A c \in Cols :
              b_poemap.pm[sid][c] = SumOfOwn(Pairs(Last(b_taken)), sid, c)

(***************************************************************************)
(* Far-away ruptures                                                       *)
(***************************************************************************)
\* rup has no site of the pair x within the maximum distance
FarRupture(x, rup) ==
    filter(x.s_sites.sids, rup.geom, None,
           b_cm.maximum_distance[rup.mag]).kind = "FarAwayRupture"

AllFar(x) ==
    \A m \in DOMAIN x.src.mags : \A i \in DOMAIN x.src.mags[m].rups :
        FarRupture(x, x.src.mags[m].rups[i])

SomeFar(x) ==
    \E m \in DOMAIN x.src.mags : \E i \in DOMAIN x.src.mags[m].rups :
        FarRupture(x, x.src.mags[m].rups[i])

RECURSIVE near_only(_, _)
near_only(x, rups) ==
    IF rups = <<>> THEN <<>>
    ELSE (IF FarRupture(x, Head(rups)) THEN <<>> ELSE <<Head(rups)>>)
         \o near_only(x, Tail(rups))

\* the source of x without its far-away ruptures
Pruned(x) ==
    [x.src EXCEPT !.mags =
        [m \in DOMAIN @ |-> [@[m] EXCEPT !.rups = near_only(x, @)]]]

RECURSIVE blank_far(_, _)
blank_far(x, rups) ==
    IF rups = <<>> THEN <<>>
    ELSE <<IF FarRupture(x, Head(rups))
           THEN [Head(rups) EXCEPT
                    !.poes = [sid \in DOMAIN @ |-> [c \in Cols |-> One]]]
           ELSE Head(rups)>>
         \o blank_far(x, Tail(rups))

\* the source of x with the poes of its far-away ruptures all set to 1
Blanked(x) ==
    [x.src EXCEPT !.mags =
        [m \in DOMAIN @ |-> [@[m] EXCEPT !.rups = blank_far(x, @)]]]

SameMap(a, b) == b.kind = "ok" /\ a.pm = b.pm /\ a.nsites = b.nsites

ReachedSids(ps) == {sid \in Sids : \E i \in DOMAIN ps : Reaches(ps[i], sid)}

in_group(x, g) ==
    \E i \in DOMAIN x.src.src_group_ids : x.src.src_group_ids[i] = g

\* the product of the own non-exceedance rows at sid of the ruptures of
\* the sources of xs that are in group g
RECURSIVE GroupProduct(_, _, _, _)
GroupProduct(xs, g, sid, c) ==
    IF xs = <<>> THEN One
    ELSE RMul(IF in_group(Head(xs), g)
              THEN ProductOfOwn(Pairs(Head(xs)), sid, c) ELSE One,
              GroupProduct(Tail(xs), g, sid, c))

\* C5: with rup_mutex = False and src_mutex = False, after any sequence
\* of sources no error was raised and the value stored for a group and
\* sid is 1 minus the product of the non-exceedance probabilities of all
\* ruptures of all sources of that group that reached that sid.
C5_GroupUnionOfRuptures ==
    (b_taken # <<>> /\ ~b_rup_mutex /\ ~b_src_mutex) =>
        /\ b_pc # "raised"
        /\ \A g \in DOMAIN b_pmap : \A sid \in DOMAIN b_pmap[g] :
              \A c \in Cols :
                 b_pmap[g][sid][c] =
                     RSub(One, GroupProduct(b_taken, g, sid, c))

\* the pairs whose map was merged: all but one whose get_pmap raised
Merged ==
    IF b_pc = "raised" THEN SubSeq(b_taken, 1, Len(b_taken) - 1)
    ELSE b_taken

\* the poemap get_pmap gave for the pair x
PoemapOf(x) == get_pmap(b_cm, b_rupture, x.src, x.s_sites, ~b_rup_mutex)

\* the exceedance values of a source whose map is pm (lines 39-40)
Exceedance(pm) == IF b_rup_mutex THEN pm ELSE pm_invert(pm)

\* mutex_weight times the exceedance value e of the source of x
weighted_term(x, e, g, sid, c) ==
    IF in_group(x, g) /\ sid \in DOMAIN e
    THEN RMul(x.src.mutex_weight, e[sid][c]) ELSE Zero

\* the exceedance values of every pair of xs, in order
ExceedancesOf(xs) ==
    [i \in DOMAIN xs |-> Exceedance(PoemapOf(xs[i]).pm)]

\* the sum of the weighted terms of the pairs xs from the k-th on, es
\* being their exceedance values
RECURSIVE GroupSum(_, _, _, _, _, _)
GroupSum(xs, es, k, g, sid, c) ==
    IF k > Len(xs) THEN Zero
    ELSE RAdd(weighted_term(xs[k], es[k], g, sid, c),
              GroupSum(xs, es, k + 1, g, sid, c))

\* every stored value is the sum for its group, sid and column
GroupSumsMatch(xs, es) ==
    \A g \in DOMAIN b_pmap : \A sid \in DOMAIN b_pmap[g] : \A c \in Cols :
        b_pmap[g][sid][c] = GroupSum(xs, es, 1, g, sid, c)

\* every map of es is in every group of its source
AllInEveryGroup(xs, es) ==
    \A i \in DOMAIN xs :
        \A j \in DOMAIN xs[i].src.src_group_ids : \A sid \in DOMAIN es[i] :
            /\ xs[i].src.src_group_ids[j] \in DOMAIN b_pmap
            /\ sid \in DOMAIN b_pmap[xs[i].src.src_group_ids[j]]

SumsOfMerged(xs, es) == GroupSumsMatch(xs, es) /\ AllInEveryGroup(xs, es)

\* C6: with src_mutex = True every source's map is added to every group
\* of src.src_group_ids, scaled by src.mutex_weight once: the value
\* stored for a group and sid is the sum over that group's sources of
\* mutex_weight times the source's exceedance value.
C6_GroupSumOfWeightedSources ==
    b_src_mutex =>
        \A es \in {ExceedancesOf(Merged)} : SumsOfMerged(Merged, es)

\* a source of two groups and then another source of one of them were
\* merged
C6_Witness ==
    /\ b_src_mutex
    /\ Len(b_taken) = 2
    /\ b_pc = "loop"
    /\ b_taken[1].src = SrcB
    /\ b_taken[2].src = SrcA
    /\ b_poemap.pm # EmptyMap
    /\ 1 \in DOMAIN b_pmap
    /\ b_pmap[1] # EmptyMap

(***************************************************************************)
(* Errors of get_pmap_by_grp                                               *)
(***************************************************************************)
\* the error raised to the caller is the one of the last source taken
ErrorIsOfLastSource ==
    b_pc = "raised" =>
        /\ b_poemap.kind = "raise"
        /\ b_err.etype = b_poemap.etype
        /\ b_err.msg = <<err_message(b_poemap.etype), " (source id=",
                         Last(b_taken).src.source_id, ")">>

AllInUnit(pm) == \A sid \in DOMAIN pm : \A c \in Cols : InUnit(pm[sid][c])

\* the sum of the mutex_weight of the sources of xs that are in group g
RECURSIVE GroupWeight(_, _)
GroupWeight(xs, g) ==
    IF xs = <<>> THEN Zero
    ELSE RAdd(IF in_group(Head(xs), g) THEN Head(xs).src.mutex_weight
              ELSE Zero,
              GroupWeight(Tail(xs), g))

RegimeIdentity == IF b_rup_mutex THEN Zero ELSE One

\* the poemap of the pair x when no GSIM carries a weight
UnweightedPoemapOf(x) ==
    get_pmap([b_cm EXCEPT !.gsim_weight = NoWeights], b_rupture, x.src,
             x.s_sites, ~b_rup_mutex)

\* pm holds the identity where the GSIM has weight[imt] == 0 and the
\* values of the unweighted map un elsewhere
masked_like(pm, un) ==
    /\ un.kind = "ok"
    /\ DOMAIN pm = DOMAIN un.pm
    /\ \A sid \in DOMAIN pm : \A c \in Cols :
          pm[sid][c] = IF zero_weight(b_cm, c) THEN RegimeIdentity
                       ELSE un.pm[sid][c]

row_if_reached(p, r) ==
    IF r.kind = "ok"
    THEN <<[rup_id |-> p.rup.rup_id, sid_ |-> r.sids,
            dist_ |-> r.filter_distance]>>
    ELSE <<>>

\* one row per surviving rupture of ps, in order
RECURSIVE RowsOfSurvivors(_)
RowsOfSurvivors(ps) ==
    IF ps = <<>> THEN <<>>
    ELSE row_if_reached(Head(ps),
                        make_contexts(b_cm, Head(ps).t.sites, Head(ps).rup,
                                      Head(ps).t.mdist))
         \o RowsOfSurvivors(Tail(ps))

\* the rupture, sids and distances of the rows of data
StoredRows(data) ==
    [i \in DOMAIN data |->
        [rup_id |-> data[i].rup_id, sid_ |-> data[i].sid_,
         dist_ |-> data[i].dist_]]

FewSites(x) == Len(x.s_sites.complete) <= b_cm.max_sites_disagg

\* C14: when the complete site collection has at most max_sites_disagg
\* sites, the data of the poemap get_pmap returns hold exactly one row
\* per surviving rupture, with the sids and the distances computed for
\* that same rupture; when the collection is larger the data are empty.
C14_OneRowPerSurvivingRupture ==
    (b_taken # <<>> /\ b_poemap.kind = "ok") =>
        IF FewSites(Last(b_taken))
        THEN StoredRows(b_poemap.data) = RowsOfSurvivors(Pairs(Last(b_taken)))
        ELSE b_poemap.data = <<>>

(***************************************************************************)
(* get_distances(rupture, mesh, param), every kind of distance             *)
(***************************************************************************)
KNOWN_DISTANCES ==
    {"rrup", "rx", "ry0", "rjb", "rhypo", "repi", "rcdpp", "azimuth",
     "azimuth_cp", "rvolc"}

\* the methods of the rupture, its surface and its hypocenter that
\* get_distances calls; each returns one value per point of the mesh
Methods ==
    <<"surface.get_min_distance", "surface.get_rx_distance",
      "surface.get_ry0_distance", "surface.get_joyner_boore_distance",
      "hypocenter.distance_to_mesh",
      "hypocenter.distance_to_mesh(with_depths=False)",
      "get_cdppvalue", "surface.get_azimuth",
      "surface.get_azimuth_of_closest_point">>

\* a rupture whose k-th method gives the point s the value g[s] + k,
\* folded into the values of Dists
RuptureOf(g) ==
    [k \in DOMAIN Methods |-> [s \in Sids |-> (g[s] + k) % (MaxDist + 1)]]

\* rupture.<method>(mesh)
call_method(rupture, k, mesh) == [i \in DOMAIN mesh |-> rupture[k][mesh[i]]]

zeros_like(a) == [i \in DOMAIN a |-> 0]

\* dist.flags.writeable = False; return dist
returned_readonly(dist) ==
    [kind |-> "ok", etype |-> "", msg |-> <<>>,
     dist |-> Some(dist), writeable |-> FALSE]

\* the unknown kind of distance treated like rvolc
unknown_measure_as_zero(mesh, param) == returned_readonly(zeros_like(mesh))

\* raise ValueError('Unknown distance measure %r' % param)
unknown_measure(mesh, param) ==
    [kind |-> "raise", etype |-> "ValueError",
     msg |-> <<"Unknown distance measure ", param>>,
     dist |-> None, writeable |-> FALSE]

get_distances_param(rupture, mesh, param) ==
    CASE param = "rrup" -> returned_readonly(call_method(rupture, 1, mesh))
      [] param = "rx" -> returned_readonly(call_method(rupture, 2, mesh))
      [] param = "ry0" -> returned_readonly(call_method(rupture, 3, mesh))
      [] param = "rjb" -> returned_readonly(call_method(rupture, 4, mesh))
      [] param = "rhypo" -> returned_readonly(call_method(rupture, 5, mesh))
      [] param = "repi" -> returned_readonly(call_method(rupture, 6, mesh))
      [] param = "rcdpp" -> returned_readonly(call_method(rupture, 7, mesh))
      [] param = "azimuth" -> returned_readonly(call_method(rupture, 8, mesh))
      [] param = "azimuth_cp" ->
            returned_readonly(call_method(rupture, 9, mesh))
      [] param = "rvolc" -> returned_readonly(zeros_like(mesh))
      [] OTHER -> unknown_measure(mesh, param)

\* the kinds of distance asked for: the known ones and three others
Params == KNOWN_DISTANCES \cup {"rupture_distance", "RJB", "r"}

InitDist ==
    /\ IdleFilter /\ IdlePne /\ IdleGen /\ IdleMain /\ IdleHeap /\ IdleKeys
    /\ d_rupture \in {RuptureOf(g) : g \in [Sids -> Dists]}
    /\ d_mesh \in SiteCollections
    /\ d_param \in Params
    /\ d_out = <<>>

CallDist ==
    /\ d_out = <<>>
    /\ d_out' = get_distances_param(d_rupture, d_mesh, d_param)
    /\ UNCHANGED <<d_rupture, d_mesh, d_param>>
    /\ UNCHANGED <<filterVars, pneVars, genVars, mainVars, heapVars, keyVars>>

NextDist == CallDist

SpecDist == InitDist /\ [][NextDist]_vars

\* a known kind of distance gives an array of the mesh's length that is
\* marked read-only
KnownGivesReadOnlyArray ==
    (d_out # <<>> /\ d_param \in KNOWN_DISTANCES) =>
        /\ d_out.kind = "ok"
        /\ Len(Val(d_out.dist)) = Len(d_mesh)
        /\ ~d_out.writeable

\* C15: get_distances called with a kind of distance outside
\* KNOWN_DISTANCES fails with the error kind InvalidDistanceMetric and
\* returns no array; for every kind inside the set it returns an array of
\* the mesh's length marked read-only.
C15_UnknownIsInvalidDistanceMetric ==
    /\ KnownGivesReadOnlyArray
    /\ (d_out # <<>> /\ d_param \notin KNOWN_DISTANCES) =>
        /\ d_out.kind = "raise"
        /\ d_out.etype = "InvalidDistanceMetric"
        /\ IsNone(d_out.dist)

\* C15, amended: get_distances called with a kind of distance outside
\* KNOWN_DISTANCES fails with a ValueError whose message is 'Unknown
\* distance measure' followed by the kind asked for, and returns no
\* array; for every kind inside the set it returns an array of the mesh's
\* length marked read-only.
C15_UnknownIsValueError ==
    /\ KnownGivesReadOnlyArray
    /\ (d_out # <<>> /\ d_param \notin KNOWN_DISTANCES) =>
        /\ d_out.kind = "raise"
        /\ d_out.etype = "ValueError"
        /\ d_out.msg = <<"Unknown distance measure ", d_param>>
        /\ IsNone(d_out.dist)

\* an unknown kind of distance has been asked for and refused
C15_Witness ==
    /\ d_out # <<>>
    /\ d_param \notin KNOWN_DISTANCES
    /\ d_out.kind = "raise"
    /\ Len(d_mesh) > 1

(***************************************************************************)
(* The maximum distance filter uses                                        *)
(***************************************************************************)
\* the sites filter let through are those within m of the rupture
SurvivorsWithin(m) ==
    Range(f_out.sids) = {f_sites[i] : i \in NearIdx(m)}

\* C16: filter uses the mdist the caller supplied whenever one is
\* supplied, 0 included, and maximum_distance(trt, mag) only when mdist is
\* absent; with mdist = 0 only the sites at distance <= 0 survive.
C16_SuppliedMdistIsUsed ==
    f_out.kind # "idle" =>
        /\ ~IsNone(f_mdist) => SurvivorsWithin(Val(f_mdist))
        /\ IsNone(f_mdist) => SurvivorsWithin(f_maxdist)
        /\ f_mdist = Some(0) =>
              \A k \in DOMAIN f_out.filter_distance :
                 f_out.filter_distance[k] <= 0

(***************************************************************************)
(* The collapse distance of a complex point source                         *)
(***************************************************************************)
\* maximum_distance(trt, mag), capped at max_radius * radius when
\* max_radius is set
CappedMdist(mag) ==
    IF IsNone(g_cm.max_radius) THEN g_cm.maximum_distance[mag]
    ELSE Min(Val(g_cm.max_radius) * g_src.radius[mag],
             g_cm.maximum_distance[mag])

\* pointsource_distance whenever set
CdistAsSet(mag) ==
    IF IsNone(g_cm.pointsource_distance)
    THEN Min(g_cm.collapse_factor * g_src.radius[mag], CappedMdist(mag))
    ELSE Val(g_cm.pointsource_distance)

\* pointsource_distance capped at mdist
CdistCapped(mag) ==
    IF IsNone(g_cm.pointsource_distance)
    THEN Min(g_cm.collapse_factor * g_src.radius[mag], CappedMdist(mag))
    ELSE Min(Val(g_cm.pointsource_distance), CappedMdist(mag))

SitesWithin(cdist) ==
    {s \in Range(g_sites) : Val(g_src.location)[s] < cdist}

\* the triple t carries mdist, and its sites are the sites within cdist
\* when its ruptures are not collapsed, the other sites when they are
SplitAt(t, cdist, mdist) ==
    /\ t.mdist = Some(mdist)
    /\ Range(t.sites) = IF t.rups.list THEN SitesWithin(cdist)
                        ELSE Range(g_sites) \ SitesWithin(cdist)

TripleMag(t) == t.rups.items[1].mag

\* C17: for a complex point source the collapse distance that splits the
\* sites is pointsource_distance whenever that option is set, and
\* min(collapse_factor * radius, mdist) otherwise, mdist being
\* maximum_distance(trt, mag) capped at max_radius * radius when
\* max_radius is set.
C17_CdistIsPointsourceDistance ==
    Complex =>
        \A i \in DOMAIN g_out :
            SplitAt(g_out[i], CdistAsSet(TripleMag(g_out[i])),
                    CappedMdist(TripleMag(g_out[i])))

\* C17, amended: for a complex point source the collapse distance that
\* splits the sites is min(pointsource_distance, mdist) when that option
\* is set, and min(collapse_factor * radius, mdist) otherwise, mdist being
\* maximum_distance(trt, mag) capped at max_radius * radius when
\* max_radius is set.
C17_CdistIsCappedAtMdist ==
    Complex =>
        \A i \in DOMAIN g_out :
            SplitAt(g_out[i], CdistCapped(TripleMag(g_out[i])),
                    CappedMdist(TripleMag(g_out[i])))

\* a complex point source whose pointsource_distance is above mdist has
\* had its sites split, some of them closer than pointsource_distance
C17_Witness ==
    /\ Complex
    /\ g_out # <<>>
    /\ ~IsNone(g_cm.pointsource_distance)
    /\ Val(g_cm.pointsource_distance) > CappedMdist(TripleMag(g_out[1]))
    /\ SitesWithin(Val(g_cm.pointsource_distance)) # {}

(***************************************************************************)
(* The order of the ruptures and of the batches                            *)
(***************************************************************************)
\* every reordering of the sequence s
Reorderings(s) ==
    {[i \in DOMAIN s |-> s[q[i]]] :
        q \in {f \in [DOMAIN s -> DOMAIN s] :
                  \A i, j \in DOMAIN s : f[i] = f[j] => i = j}}

\* the batch t with its ruptures in every order
RupturesReordered(t) ==
    {[t EXCEPT !.rups.items = q] : q \in Reorderings(t.rups.items)}

\* the batches ts, each with its ruptures in some order, in some order
BatchesReordered(ts) ==
    UNION {Reorderings(u) :
             u \in {f \in [DOMAIN ts -> UNION {RupturesReordered(ts[i]) :
                                                 i \in DOMAIN ts}] :
                       \A i \in DOMAIN ts : f[i] \in RupturesReordered(ts[i])}}

\* what get_pmap returns for the pair x when the generator yields ts
get_pmap_over(x, ts) ==
    poemap_result(pmap_batches(b_cm, b_rupture, x.src, FewSites(x), TRUE,
                               empty_poemap, ts))

SameSidsAndValues(pm1, pm2) ==
    /\ pm1.kind = pm2.kind
    /\ DOMAIN pm1.pm = DOMAIN pm2.pm
    /\ \A sid \in DOMAIN pm1.pm : \A c \in Cols :
          pm1.pm[sid][c] = pm2.pm[sid][c]

YieldedFor(x) == _gen_rups_sites(b_cm, x.src, x.s_sites.sids)

C19_FilterIdempotent ==
    f_again.kind # "idle" =>
        /\ f_again.kind = "ok"
        /\ f_again.sids = f_out.sids
        /\ f_again.filter_distance = f_out.filter_distance

\* the first call dropped a site, and the second call has been made
C19_Witness ==
    /\ f_again.kind # "idle"
    /\ Len(f_out.sids) < Len(f_sites)
    /\ Len(f_out.sids) > 1

(***************************************************************************)
(* Objects and copies: _collapse and the averaged hypocenter depth         *)
(*                                                                         *)
(* The heap maps the identity of an object to its attributes. A name or    *)
(* an attribute that refers to an object holds its identity; numbers are   *)
(* values. The source is object 1, its location object 2, the list rups    *)
(* object 3 and the ruptures of the list the objects from 4 on.            *)
(***************************************************************************)
MaxRups == 3       \* the list rups has at most MaxRups ruptures
MaxMags == 2       \* gen_mag_ruptures() has at most MaxMags entries

\* no copy: the same object under another name
copy_alias(heap, id) == [heap |-> heap, id |-> id]

\* copy.copy(obj): a new object with the same attributes
copy_copy(heap, id) ==
    [heap |-> [i \in DOMAIN heap \cup {Len(heap) + 1} |->
                  IF i = Len(heap) + 1 THEN heap[id] ELSE heap[i]],
     id |-> Len(heap) + 1]

\* obj.name = value
setattr(heap, id, name, value) ==
    [heap EXCEPT ![id] = [@ EXCEPT ![name] = value]]

\* rate * n, NaN staying NaN
rate_times(rate, n) == IF isnan(rate) THEN NaN ELSE Some(Val(rate) * n)

\* lines 146-147, c being the copy of rups[0]
collapse_scaled(c, n) ==
    [heap |-> setattr(c.heap, c.id, "occurrence_rate",
                      rate_times(c.heap[c.id].occurrence_rate, n)),
     id |-> c.id]

\* lines 143-147: _collapse(rups), on the heap
collapse_in(heap, rups) ==
    collapse_scaled(copy_copy(heap, heap[rups].items[1]),
                    Len(heap[rups].items))

\* numpy.average(depths, weights=weights) for data = <<<<weight, depth>>, ...>>
RECURSIVE weighted_sum(_)
weighted_sum(data) ==
    IF data = <<>> THEN 0 ELSE Head(data)[1] * Head(data)[2] + weighted_sum(Tail(data))

RECURSIVE weight_sum(_)
weight_sum(data) ==
    IF data = <<>> THEN 0 ELSE Head(data)[1] + weight_sum(Tail(data))

average(data) == Rat(weighted_sum(data), weight_sum(data))

\* lines 369-370, c being the copy of loc
depth_averaged(c, data) ==
    [heap |-> setattr(c.heap, c.id, "depth", average(data)), id |-> c.id]

\* lines 367-370: loc = copy.copy(loc); loc.depth = numpy.average(...)
average_hypocenter(heap, src, loc) ==
    depth_averaged(copy_copy(heap, loc), heap[src].hypocenter_distribution)

HeapRupture(k, rate) ==
    [rup_id |-> 50 + k, mag |-> 5, occurrence_rate |-> rate]

\* the heap for a source at the given depth with the hypocenter
\* distribution data, and a list of ruptures with the given rates
HeapOf(depth, data, rates) ==
    [i \in 1 .. (3 + Len(rates)) |->
        CASE i = 1 -> [location |-> 2, hypocenter_distribution |-> data]
          [] i = 2 -> [depth |-> Int2Rat(depth), lon |-> 0, lat |-> 0]
          [] i = 3 -> [items |-> [k \in DOMAIN rates |-> 3 + k]]
          [] OTHER -> HeapRupture(i - 3, rates[i - 3])]

Rates == {NaN, Some(1), Some(2)}
RatesLists == UNION {[1 .. n -> Rates] : n \in 1 .. MaxRups}
HypocenterData == {<<<<1, 0>>, <<1, 2>>>>, <<<<1, 2>>, <<3, 0>>>>}

InitHeap ==
    /\ IdleFilter /\ IdlePne /\ IdleGen /\ IdleMain /\ IdleDist /\ IdleKeys
    /\ h_heap \in {HeapOf(depth, data, rates) :
                      depth \in Dists, data \in HypocenterData,
                      rates \in RatesLists}
    /\ h_before = h_heap
    /\ h_src = 1
    /\ h_rups = 3
    /\ h_loc = h_heap[1].location     \* line 358
    /\ h_rup = None
    /\ h_n = 0
    /\ h_pc = "depth"

UnchangedOthers ==
    UNCHANGED <<filterVars, pneVars, genVars, mainVars, distVars, keyVars>>

\* lines 361-370 for a source that is not simple: the next magnitude
Averaged(c) ==
    /\ h_pc = "depth"
    /\ h_n < MaxMags
    /\ h_heap' = c.heap
    /\ h_loc' = c.id
    /\ h_n' = h_n + 1
    /\ h_pc' = "yield"
    /\ UNCHANGED <<h_before, h_src, h_rups, h_rup>>
    /\ UnchangedOthers

AverageDepth == Averaged(average_hypocenter(h_heap, h_src, h_loc))

\* lines 386-392 when some sites are far: _collapse(rups) is yielded
Collapsed(c) ==
    /\ h_pc = "yield"
    /\ h_heap' = c.heap
    /\ h_rup' = Some(c.id)
    /\ h_pc' = "depth"
    /\ UNCHANGED <<h_before, h_src, h_rups, h_loc, h_n>>
    /\ UnchangedOthers

YieldCollapsed == Collapsed(collapse_in(h_heap, h_rups))

\* lines 388-389 when all the sites are close: rups is yielded as it is
YieldClose ==
    /\ h_pc = "yield"
    /\ h_pc' = "depth"
    /\ UNCHANGED <<h_heap, h_before, h_src, h_rups, h_loc, h_rup, h_n>>
    /\ UnchangedOthers

\* gen_mag_ruptures() is exhausted
HeapDone ==
    /\ h_pc = "depth"
    /\ h_n > 0
    /\ h_pc' = "done"
    /\ UNCHANGED <<h_heap, h_before, h_src, h_rups, h_loc, h_rup, h_n>>
    /\ UnchangedOthers

NextHeap == AverageDepth \/ YieldCollapsed \/ YieldClose \/ HeapDone

SpecHeap == InitHeap /\ [][NextHeap]_vars

\* C20: _collapse leaves its input as it was: the list rups keeps its
\* length and its elements, and rups[0] and the other ruptures keep their
\* occurrence_rate and every other attribute; likewise the source keeps
\* its location, depth included, when _gen_rups_sites averages the
\* hypocenter depth.
C20_InputsUnchanged ==
    h_pc # "idle" =>
        \A id \in DOMAIN h_before : h_heap[id] = h_before[id]

\* _collapse has returned a rupture whose rate is not that of rups[0],
\* and loc has been given a depth that is not that of the source's
\* location
C20_Witness ==
    /\ h_pc # "idle"
    /\ ~IsNone(h_rup)
    /\ h_heap[Val(h_rup)].occurrence_rate
           # h_before[h_before[h_rups].items[1]].occurrence_rate
    /\ h_heap[h_loc].depth # h_before[h_before[h_src].location].depth
    /\ Len(h_before[h_rups].items) > 1

(***************************************************************************)
(* The sids of the map get_pmap returns                                    *)
(***************************************************************************)
\* the maximum distance for the rupture of the pair p: the distance the
\* generator yielded with its batch, or maximum_distance(trt, mag)
MaximumDistanceOf(p) ==
    IF IsNone(p.t.mdist) THEN b_cm.maximum_distance[p.rup.mag]
    ELSE Val(p.t.mdist)

\* sid is a site of the batch of p within the maximum distance of its
\* rupture
WithinOf(p, sid) ==
    /\ sid \in Range(p.t.sites)
    /\ p.rup.geom[sid] <= MaximumDistanceOf(p)

NearSome(ps, sid) == \E i \in DOMAIN ps : WithinOf(ps[i], sid)

\* the sids of pm are the sids of sites that are near some rupture of ps
SidsAreTheNearOnes(pm, sites, ps) ==
    /\ DOMAIN pm \subseteq Range(sites)
    /\ \A sid \in Range(sites) : (sid \in DOMAIN pm) <=> NearSome(ps, sid)

HAZARD_CURVE_KEY_TOKEN ==
    <<"h", "a", "z", "a", "r", "d", "_", "c", "u", "r", "v", "e">>
MEAN_HAZARD_CURVE_KEY_TOKEN ==
    <<"m", "e", "a", "n", "_", "h", "a", "z", "a", "r", "d", "_", "c", "u",
      "r", "v", "e">>
QUANTILE_HAZARD_CURVE_KEY_TOKEN ==
    <<"q", "u", "a", "n", "t", "i", "l", "e", "_", "h", "a", "z", "a", "r",
      "d", "_", "c", "u", "r", "v", "e">>
MEAN_HAZARD_MAP_KEY_TOKEN ==
    <<"m", "e", "a", "n", "_", "h", "a", "z", "a", "r", "d", "_", "m", "a",
      "p">>
QUANTILE_HAZARD_MAP_KEY_TOKEN ==
    <<"q", "u", "a", "n", "t", "i", "l", "e", "_", "h", "a", "z", "a", "r",
      "d", "_", "m", "a", "p">>

KVS_KEY_SEPARATOR == "!"

IntOf(n) == [t |-> "int", v |-> n]
FloatOf(h) == [t |-> "float", v |-> h]
StrOf(chars) == [t |-> "str", v |-> chars]

Digits == <<"0", "1", "2", "3", "4", "5", "6", "7", "8", "9">>
DigitChar(d) == Digits[d + 1]
IsDigit(c) == \E d \in 0 .. 9 : Digits[d + 1] = c
DigitVal(c) == CHOOSE d \in 0 .. 9 : Digits[d + 1] = c

\* str(n) for an int n >= 0
RECURSIVE str_int(_)
str_int(n) ==
    IF n < 10 THEN <<DigitChar(n)>>
    ELSE str_int(n \div 10) \o <<DigitChar(n % 10)>>

\* the digits after the point of a float with f hundredths after it
str_fraction(f) ==
    IF f % 10 = 0 THEN <<DigitChar(f \div 10)>>
    ELSE <<DigitChar(f \div 10), DigitChar(f % 10)>>

\* str(x) for a float of h hundredths: 0.1, 0.25, 1.0, -1.5
str_float(h) ==
    (IF h < 0 THEN <<"-">> ELSE <<>>)
    \o str_int(Abs(h) \div 100) \o <<".">> \o str_fraction(Abs(h) % 100)

\* str(x)
str(x) ==
    CASE x.t = "int" -> str_int(x.v)
      [] x.t = "float" -> str_float(x.v)
      [] OTHER -> x.v

\* the position of the first c in chars, 0 when there is none
IndexOf(chars, c) ==
    IF \E i \in DOMAIN chars : chars[i] = c
    THEN CHOOSE i \in DOMAIN chars :
            chars[i] = c /\ \A j \in 1 .. (i - 1) : chars[j] # c
    ELSE 0

\* the part of chars before position i (all of it when i = 0)
Before(chars, i) == IF i = 0 THEN chars ELSE SubSeq(chars, 1, i - 1)

\* the part of chars after position i (nothing when i = 0)
After(chars, i) == IF i = 0 THEN <<>> ELSE SubSeq(chars, i + 1, Len(chars))

\* chars.split(sep)
RECURSIVE split(_, _)
split(chars, sep) ==
    IF IndexOf(chars, sep) = 0 THEN <<chars>>
    ELSE <<Before(chars, IndexOf(chars, sep))>>
         \o split(After(chars, IndexOf(chars, sep)), sep)

\* chars.partition(sep)[0]
partition_head(chars, sep) == Before(chars, IndexOf(chars, sep))

RECURSIVE join(_, _)
join(parts, sep) ==
    IF parts = <<>> THEN <<>>
    ELSE IF Len(parts) = 1 THEN parts[1]
    ELSE parts[1] \o <<sep>> \o join(Tail(parts), sep)

IsSpace(c) == c = " "
NotSpace(c) == ~IsSpace(c)

\* openquake.kvs.generate_key(key_list): the components as strings,
\* without spaces, joined by the separator
generate_key(key_list) ==
    join([i \in DOMAIN key_list |-> SelectSeq(str(key_list[i]), NotSpace)],
         KVS_KEY_SEPARATOR)

\* lines 82-86
mean_hazard_curve_key(job_id, site) ==
    generate_key(<<StrOf(MEAN_HAZARD_CURVE_KEY_TOKEN), IntOf(job_id),
                   FloatOf(site.longitude), FloatOf(site.latitude)>>)

\* lines 89-95
quantile_hazard_curve_key(job_id, site, quantile) ==
    generate_key(<<StrOf(QUANTILE_HAZARD_CURVE_KEY_TOKEN), IntOf(job_id),
                   FloatOf(site.longitude), FloatOf(site.latitude),
                   StrOf(str(FloatOf(quantile)))>>)

\* lines 98-102
mean_hazard_map_key(job_id, site, poe) ==
    generate_key(<<StrOf(MEAN_HAZARD_MAP_KEY_TOKEN), IntOf(job_id),
                   StrOf(site.hash), StrOf(str(FloatOf(poe)))>>)

\* lines 105-110
quantile_hazard_map_key(job_id, site, poe, quantile) ==
    generate_key(<<StrOf(QUANTILE_HAZARD_MAP_KEY_TOKEN), IntOf(job_id),
                   FloatOf(site.longitude), FloatOf(site.latitude),
                   StrOf(str(FloatOf(poe))), StrOf(str(FloatOf(quantile)))>>)

\* lines 149-156
hazard_curve_key(job_id, realization_num, site_lon, site_lat) ==
    generate_key(<<StrOf(HAZARD_CURVE_KEY_TOKEN), IntOf(job_id),
                   IntOf(realization_num), FloatOf(site_lon),
                   FloatOf(site_lat)>>)

\* lines 171-174
extract_product_type_from_kvs_key(kvs_key) ==
    partition_head(kvs_key, KVS_KEY_SEPARATOR)

\* the value of the digits ds, read as a whole number
RECURSIVE int_of(_)
int_of(ds) ==
    IF ds = <<>> THEN 0
    ELSE 10 * int_of(SubSeq(ds, 1, Len(ds) - 1)) + DigitVal(ds[Len(ds)])

\* the hundredths the digits ds stand for after the point
hundredths_of(ds) ==
    IF ds = <<>> THEN 0
    ELSE IF Len(ds) = 1 THEN 10 * DigitVal(ds[1])
    ELSE 10 * DigitVal(ds[1]) + DigitVal(ds[2])

AllDigits(ds) == \A i \in DOMAIN ds : IsDigit(ds[i])

\* float(body) for a string without sign
float_unsigned(body) ==
    100 * int_of(Before(body, IndexOf(body, ".")))
    + hundredths_of(After(body, IndexOf(body, ".")))

IsUnsignedFloat(body) ==
    /\ Before(body, IndexOf(body, ".")) # <<>>
    /\ AllDigits(Before(body, IndexOf(body, ".")))
    /\ AllDigits(After(body, IndexOf(body, ".")))
    /\ Len(After(body, IndexOf(body, "."))) <= 2

Returned(v) == [kind |-> "ok", etype |-> "", value |-> v]
Raised(etype) == [kind |-> "raise", etype |-> etype, value |-> None]

\* float(chars): the float in hundredths, or ValueError
float(chars) ==
    IF chars # <<>> /\ chars[1] = "-"
    THEN IF IsUnsignedFloat(Tail(chars))
         THEN Returned(Some(0 - float_unsigned(Tail(chars))))
         ELSE Raised("ValueError")
    ELSE IF IsUnsignedFloat(chars)
         THEN Returned(Some(float_unsigned(chars)))
         ELSE Raised("ValueError")

\* parts[n], counting from 0
item(parts, n) == parts[n + 1]

\* line 144: float(kvs_key.split(KVS_KEY_SEPARATOR)[3])
float_of_fourth(parts) ==
    IF Len(parts) <= 3 THEN Raised("IndexError")
    ELSE float(item(parts, 3))

\* lines 135-146
poe_value_from_hazard_map_key(kvs_key) ==
    IF extract_product_type_from_kvs_key(kvs_key)
          \in {MEAN_HAZARD_MAP_KEY_TOKEN, QUANTILE_HAZARD_MAP_KEY_TOKEN}
    THEN float_of_fourth(split(kvs_key, KVS_KEY_SEPARATOR))
    ELSE Returned(None)

KeyFunctions ==
    {"mean_hazard_map_key", "quantile_hazard_map_key",
     "mean_hazard_curve_key", "quantile_hazard_curve_key",
     "hazard_curve_key"}

KeySites ==
    {[longitude |-> lo, latitude |-> la, hash |-> h] :
        lo \in {-150, 200}, la \in {25, 3450},
        h \in {<<"s", "0", "0">>, <<"9", "q", "h">>}}

InitKeys ==
    /\ IdleFilter /\ IdlePne /\ IdleGen /\ IdleMain /\ IdleDist /\ IdleHeap
    /\ k_kind \in KeyFunctions
    /\ k_job \in {7, 12}
    /\ k_site \in KeySites
    /\ k_num \in {0, 3}
    /\ k_poe \in {0, 1, 10, 25, 100}
    /\ k_quantile \in {25, 50}
    /\ k_key = <<>>
    /\ k_out = <<>>

KeyMade(kind, key) ==
    /\ k_kind = kind
    /\ k_key = <<>>
    /\ k_key' = key
    /\ UNCHANGED <<k_kind, k_job, k_site, k_num, k_poe, k_quantile, k_out>>
    /\ UNCHANGED <<filterVars, pneVars, genVars, mainVars, distVars, heapVars>>

MeanHazardMapKey ==
    KeyMade("mean_hazard_map_key", mean_hazard_map_key(k_job, k_site, k_poe))

QuantileHazardMapKey ==
    KeyMade("quantile_hazard_map_key",
            quantile_hazard_map_key(k_job, k_site, k_poe, k_quantile))

MeanHazardCurveKey ==
    KeyMade("mean_hazard_curve_key", mean_hazard_curve_key(k_job, k_site))

QuantileHazardCurveKey ==
    KeyMade("quantile_hazard_curve_key",
            quantile_hazard_curve_key(k_job, k_site, k_quantile))

HazardCurveKey ==
    KeyMade("hazard_curve_key",
            hazard_curve_key(k_job, k_num, k_site.longitude, k_site.latitude))

PoeValueFromKey ==
    /\ k_key # <<>>
    /\ k_out = <<>>
    /\ k_out' = poe_value_from_hazard_map_key(k_key)
    /\ UNCHANGED <<k_kind, k_job, k_site, k_num, k_poe, k_quantile, k_key>>
    /\ UNCHANGED <<filterVars, pneVars, genVars, mainVars, distVars, heapVars>>

NextKeys ==
    \/ MeanHazardMapKey
    \/ QuantileHazardMapKey
    \/ MeanHazardCurveKey
    \/ QuantileHazardCurveKey
    \/ HazardCurveKey
    \/ PoeValueFromKey

SpecKeys == InitKeys /\ [][NextKeys]_vars

HazardMapKeys == {"mean_hazard_map_key", "quantile_hazard_map_key"}

\* C22: poe_value_from_hazard_map_key returns the PoE the key was built
\* with, for every key of mean_hazard_map_key and for every key of
\* quantile_hazard_map_key, and returns None for a key of any other
\* product type.
C22_PoeOfTheKey ==
    k_out # <<>> =>
        /\ k_out.kind = "ok"
        /\ k_out.value = IF k_kind \in HazardMapKeys THEN Some(k_poe)
                         ELSE None

====
